---------------------------- MODULE Spec2Model ----------------------------
(***************************************************************************)
(* Maze generation by randomized depth-first backtracking and A* search   *)
(* over the carved grid, as implemented in src/main.cpp.                  *)
(*                                                                         *)
(* COLS and ROWS are compile-time constants of the program (1280/5 and    *)
(* 720/5).  They are state here so that every grid of at most MaxCells    *)
(* cells is explored.                                                      *)
(***************************************************************************)
EXTENDS Integers, Sequences, FiniteSets, TLC

\* Largest grid area (COLS * ROWS) explored by Spec.
MaxCells == 10

\* Largest grid area of the prepared grids explored by SpecGrid.
MaxGridCells == 8

\* Largest grid area of the prepared grids that have walls removed on one
\* side only, and the largest number of such walls.
MaxDefectCells == 4
MaxDefects == 1

NORTH == 0
SOUTH == 1
WEST == 2
EAST == 3
INT_MAX == 2147483647

Dirs == {NORTH, SOUTH, WEST, EAST}

VARIABLES
    cols,       \* COLS
    rows,       \* ROWS
    maze,       \* Maze::maze : index -> [visited, exist[dir]]
    stack,      \* activation records of generate_maze, innermost last
    entered,    \* index -> number of times generate_maze was entered for it
    open_set,   \* a_star: the priority queue's entries (no two are equal: an
                \* entry is pushed only when it lowers its cell's g_cost)
    came_from,  \* a_star: index -> (x, y) of the predecessor
    g_cost,     \* a_star: index -> best known cost
    visited,    \* a_star: index -> closed
    closes,     \* index -> number of times line 124 closed it
    current,    \* a_star: the node the running iteration popped and closed
    dir,        \* a_star: position of the loop of line 141 (4: not in it)
    path,       \* a_star's return value
    oob,        \* a vector has been indexed outside its size
    pc          \* position of main()

grid == <<cols, rows, maze>>
gen == <<stack, entered>>
search == <<open_set, came_from, g_cost, visited, closes, current, dir, path>>
vars == <<cols, rows, maze, stack, entered, open_set, came_from, g_cost, visited,
          closes, current, dir, path, oob, pc>>

-----------------------------------------------------------------------------
\* Grid model

\* Cell::Cell(x, y): every segment exists, the cell is unvisited.
NewCell == [visited |-> FALSE, exist |-> [d \in Dirs |-> TRUE]]

\* Maze::Maze(): one cell per (x, y) of the two loops, row-major.
NewMaze(c, r) == [i \in {y * c + x : x \in 0 .. c - 1, y \in 0 .. r - 1} |-> NewCell]

\* opposite returning the direction it was given.
opposite_Same(d) == d

\* Maze::opposite
opposite(d) ==
    IF d = NORTH THEN SOUTH
    ELSE IF d = SOUTH THEN NORTH
    ELSE IF d = WEST THEN EAST
    ELSE WEST

\* x + (dir == EAST) - (dir == WEST)
StepX(x, d) == x + (IF d = EAST THEN 1 ELSE 0) - (IF d = WEST THEN 1 ELSE 0)

\* y + (dir == SOUTH) - (dir == NORTH)
StepY(y, d) == y + (IF d = SOUTH THEN 1 ELSE 0) - (IF d = NORTH THEN 1 ELSE 0)

\* y * COLS + x
index(x, y) == y * cols + x

\* Cell::remove_wall applied to cell i of grid m.
remove_wall(m, i, d) == [m EXCEPT ![i].exist[d] = FALSE]

\* The test of line 78 without `!maze[ny * COLS + nx].visited`.
CanCarve_BoundsOnly(m, nx, ny) == nx >= 0 /\ nx < cols /\ ny >= 0 /\ ny < rows

\* The test of line 78: in bounds and not visited.
CanCarve(m, nx, ny) ==
    /\ nx >= 0 /\ nx < cols /\ ny >= 0 /\ ny < rows
    /\ ~m[index(nx, ny)].visited

\* `directions` initialised without EAST.
Shuffles_NoEast ==
    {p \in [1 .. 3 -> Dirs \ {EAST}] : \A i, j \in 1 .. 3 : p[i] = p[j] => i = j}

\* The results std::shuffle can leave in `directions` (lines 71-72).
Shuffles == {p \in [1 .. 4 -> Dirs] : \A i, j \in 1 .. 4 : p[i] = p[j] => i = j}

-----------------------------------------------------------------------------
\* Maze::generate_maze
\*
\* An activation of generate_maze(x, y) is [x, y, directions], directions being
\* the part of the shuffled vector the range-for has not iterated yet, without
\* the directions that can no longer pass the test of line 78: a neighbour that
\* is out of bounds or visited stays so, and its iteration changes nothing.

\* The directions of `ds`, in order, whose neighbour of (x, y) passes the test.
RECURSIVE Pending(_, _, _, _)
Pending(m, x, y, ds) ==
    IF ds = <<>> THEN <<>>
    ELSE LET d == Head(ds)
             rest == Pending(m, x, y, Tail(ds))
         IN  IF CanCarve(m, StepX(x, d), StepY(y, d)) THEN <<d>> \o rest ELSE rest

\* Every activation's iterations that can still act on grid m.
Skip(m, st) ==
    [k \in 1 .. Len(st) |-> [st[k] EXCEPT !.directions = Pending(m, st[k].x, st[k].y, @)]]

\* generate_maze(x, y) is called with shuffle result p on grid m, on top of
\* the activations st: lines 68-72.  maze[y * COLS + x] outside the vector is
\* undefined: the store is lost or the process dies.
Enter(x, y, m, st, p) ==
    LET inside == index(x, y) \in DOMAIN m
        m1 == IF inside THEN [m EXCEPT ![index(x, y)].visited = TRUE] ELSE m
    IN  /\ maze' = m1
        /\ entered' = IF inside THEN [entered EXCEPT ![index(x, y)] = @ + 1] ELSE entered
        /\ stack' = Skip(m1, Append(st, [x |-> x, y |-> y, directions |-> p]))
        /\ oob' = (oob \/ ~inside)
        /\ pc' \in IF inside THEN {"generate"} ELSE {"generate", "crashed"}

\* `current` outside the body of the loop of line 119.
NoNode == [x |-> 0 - 1, y |-> 0 - 1, g_cost |-> 0, h_cost |-> 0]

\* The state main() is in once `Maze maze;` holds grid m of c x r cells.
Constructed(c, r, m) ==
    /\ cols = c
    /\ rows = r
    /\ maze = m
    /\ stack = <<>>
    /\ entered = [i \in DOMAIN maze |-> 0]
    /\ open_set = {}
    /\ came_from = <<>>
    /\ g_cost = <<>>
    /\ visited = <<>>
    /\ closes = <<>>
    /\ current = NoNode
    /\ dir = 4
    /\ path = <<>>
    /\ oob = FALSE

Init ==
    /\ \E c \in 1 .. MaxCells, r \in 1 .. MaxCells :
         /\ c * r <= MaxCells
         /\ Constructed(c, r, NewMaze(c, r))
    /\ pc = "main"

\* main(): maze.generate_maze(0, 0)
MainGenerate ==
    /\ pc = "main"
    /\ \E p \in Shuffles : Enter(0, 0, maze, stack, p)
    /\ UNCHANGED <<cols, rows, search>>

\* The innermost activation runs its loop up to the next iteration that passes
\* the test of line 78 and executes it: lines 79-81.
GenStep ==
    /\ pc = "generate"
    /\ stack # <<>>
    /\ LET top == Len(stack)
           f == stack[top]
       IN  /\ f.directions # <<>>
           /\ LET d == Head(f.directions)
                  nx == StepX(f.x, d)
                  ny == StepY(f.y, d)
                  adv == [stack EXCEPT ![top].directions = Tail(@)]
              IN  IF CanCarve(maze, nx, ny)
                  THEN \E p \in Shuffles :
                         Enter(nx, ny,
                               remove_wall(remove_wall(maze, index(f.x, f.y), d),
                                           index(nx, ny), opposite(d)),
                               adv, p)
                  ELSE /\ stack' = adv
                       /\ UNCHANGED <<maze, entered, oob, pc>>
    /\ UNCHANGED <<cols, rows, search>>

\* The loop of the innermost activation runs out: generate_maze returns.
GenReturn ==
    /\ pc = "generate"
    /\ stack # <<>>
    /\ stack[Len(stack)].directions = <<>>
    /\ stack' = SubSeq(stack, 1, Len(stack) - 1)
    /\ pc' = IF Len(stack) = 1 THEN "generated" ELSE pc
    /\ UNCHANGED <<cols, rows, maze, entered, search, oob>>

-----------------------------------------------------------------------------
\* Pathfinding

\* Node::f_cost
f_cost(n) == n.g_cost + n.h_cost

\* std::abs
Abs(v) == IF v < 0 THEN 0 - v ELSE v

\* The heuristic weighted by 3: no longer a lower bound of the distance.
heuristic_Weighted(x, y) == 3 * (Abs(cols - 1 - x) + Abs(rows - 1 - y))

\* a_star's lambda `heuristic`
heuristic(x, y) == Abs(cols - 1 - x) + Abs(rows - 1 - y)

\* is_walkable returning `exist` instead of `!exist`.
is_walkable_Inverted(x, y, direction) ==
    IF x < 0 \/ y < 0 \/ x >= cols \/ y >= rows THEN FALSE
    ELSE maze[index(x, y)].exist[direction]

\* Maze::is_walkable
is_walkable(x, y, direction) ==
    IF x < 0 \/ y < 0 \/ x >= cols \/ y >= rows THEN FALSE
    ELSE ~maze[index(x, y)].exist[direction]

\* The entries priority_queue::top may return: any of least f_cost (operator>
\* of Node compares f_cost alone).
Top(q) == {n \in q : \A o \in q : ~(f_cost(n) > f_cost(o))}

\* std::unordered_map::operator[] assignment
Put(cf, k, v) == [j \in DOMAIN cf \cup {k} |-> IF j = k THEN v ELSE cf[j]]

\* The loop of line 134 from cell `at`: the cells pushed, goal first.  `seen`
\* are the indices already walked; meeting one again, the loop never ends.
RECURSIVE Walk(_, _, _)
Walk(cf, at, seen) ==
    LET k == index(at[1], at[2])
    IN  IF k \notin DOMAIN cf THEN <<>>
        ELSE IF k \in seen THEN <<"forever">>
        ELSE <<at>> \o Walk(cf, cf[k], seen \cup {k})

\* std::reverse
RECURSIVE Reverse(_)
Reverse(s) == IF s = <<>> THEN <<>> ELSE Reverse(Tail(s)) \o <<Head(s)>>

\* Reconstruction without line 136, the push of the start cell.
Reconstruct_NoStart(cf, x, y) == Reverse(Walk(cf, <<x, y>>, {}))

\* Reconstruction without line 137, the reversal.
Reconstruct_NoReverse(cf, x, y) == Walk(cf, <<x, y>>, {}) \o <<<<0, 0>>>>

\* Lines 133-138: the path returned when the goal is popped.
Reconstruct(cf, x, y) == Reverse(Walk(cf, <<x, y>>, {}) \o <<<<0, 0>>>>)

\* The closed test finding no cell closed.
IsClosed_Never(v, k) == FALSE

\* Line 123: visited[index(current.x, current.y)], k inside the vector.
IsClosed(v, k) == v[k]

\* Lines 108-117.  The vectors have COLS*ROWS elements; g_cost[0] outside
\* the vector is undefined: the store is lost or the process dies.
AStarStart ==
    /\ pc = "generated"
    /\ LET size == cols * rows
           inside == 0 < size
       IN  /\ open_set' = {[x |-> 0, y |-> 0, g_cost |-> 0, h_cost |-> heuristic(0, 0)]}
           /\ came_from' = <<>>
           /\ g_cost' = [i \in 0 .. size - 1 |-> IF i = index(0, 0) THEN 0 ELSE INT_MAX]
           /\ visited' = [i \in 0 .. size - 1 |-> FALSE]
           /\ closes' = [i \in 0 .. size - 1 |-> 0]
           /\ oob' = (oob \/ ~inside)
           /\ pc' \in IF inside THEN {"search"} ELSE {"search", "crashed"}
    /\ UNCHANGED <<grid, gen, current, dir, path>>

\* Lines 119-139 and 161: the loop test, then pop, closed test, close, goal
\* test.  visited[k] outside the vector is undefined: it reads either value or
\* the process dies, and a store to it is lost.
Pop ==
    /\ pc = "search"
    /\ dir = 4
    /\ IF open_set = {}
       THEN /\ path' = <<>>
            /\ pc' = "done"
            /\ UNCHANGED <<open_set, visited, closes, current, dir, oob>>
       ELSE \E n \in Top(open_set) :
              LET k == index(n.x, n.y)
                  inside == k \in DOMAIN visited
              IN  /\ open_set' = open_set \ {n}
                  /\ oob' = (oob \/ ~inside)
                  /\ \E closed \in IF inside THEN {IsClosed(visited, k)} ELSE BOOLEAN :
                       IF closed
                       THEN /\ pc' \in IF inside THEN {pc} ELSE {pc, "crashed"}
                            /\ UNCHANGED <<visited, closes, current, dir, path>>
                       ELSE /\ visited' = IF inside THEN [visited EXCEPT ![k] = TRUE]
                                          ELSE visited
                            /\ closes' = IF inside THEN [closes EXCEPT ![k] = @ + 1]
                                         ELSE closes
                            /\ IF n.x = cols - 1 /\ n.y = rows - 1
                               THEN LET p == Reconstruct(came_from, n.x, n.y)
                                    IN  /\ path' = p
                                        /\ pc' = IF "forever" \in {p[j] : j \in DOMAIN p}
                                                 THEN "hung" ELSE "done"
                                        /\ current' = n
                                        /\ UNCHANGED dir
                               ELSE /\ current' = n
                                    /\ dir' = 0
                                    /\ pc' \in IF inside THEN {pc} ELSE {pc, "crashed"}
                                    /\ UNCHANGED path
    /\ UNCHANGED <<grid, gen, came_from, g_cost>>

\* Lines 141-159: one iteration of the neighbour loop.  g_cost[k] outside the
\* vector is undefined: the comparison goes either way or the process dies,
\* and a store to it is lost.
Expand ==
    /\ pc = "search"
    /\ dir < 4
    /\ LET nx == StepX(current.x, dir)
           ny == StepY(current.y, dir)
           k == index(nx, ny)
           inside == k \in DOMAIN g_cost
           new_g_cost == current.g_cost + 1
       IN  IF ~is_walkable(current.x, current.y, dir)
           THEN UNCHANGED <<open_set, came_from, g_cost, oob, pc>>
           ELSE /\ oob' = (oob \/ ~inside)
                /\ pc' \in IF inside THEN {pc} ELSE {pc, "crashed"}
                /\ \E better \in IF inside THEN {new_g_cost < g_cost[k]} ELSE BOOLEAN :
                     IF better
                     THEN /\ g_cost' = IF inside THEN [g_cost EXCEPT ![k] = new_g_cost]
                                       ELSE g_cost
                          /\ came_from' = Put(came_from, k, <<current.x, current.y>>)
                          /\ open_set' = open_set \cup
                                 {[x |-> nx, y |-> ny, g_cost |-> new_g_cost,
                                   h_cost |-> heuristic(nx, ny)]}
                     ELSE UNCHANGED <<open_set, came_from, g_cost>>
    /\ dir' = dir + 1
    /\ current' = IF dir = 3 THEN NoNode ELSE current
    /\ UNCHANGED <<grid, gen, visited, closes, path>>

Generate == MainGenerate \/ GenStep \/ GenReturn

AStar == AStarStart \/ Pop \/ Expand

Next == Generate \/ AStar

\* main(): construction, generate_maze(0, 0), a_star.  The calls to SDL draw
\* and read nothing of this state.
Spec == Init /\ [][Next]_vars

-----------------------------------------------------------------------------
\* a_star on grids prepared through Cell::remove_wall instead of generate_maze

\* The wall flags of a c x r grid: cell index and direction.
Flags(c, r) == (0 .. c * r - 1) \X Dirs

\* The walls between two cells of the grid, named from their north/west side.
Edges(c, r) ==
    {f \in (0 .. c * r - 1) \X {SOUTH, EAST} :
        /\ StepX(f[1] % c, f[2]) < c
        /\ StepY(f[1] \div c, f[2]) < r}

\* The subsets of S of at most k elements.
RECURSIVE UpTo(_, _)
UpTo(S, k) ==
    IF k = 0 THEN {{}}
    ELSE LET less == UpTo(S, k - 1) IN less \cup {T \cup {f} : T \in less, f \in S}

\* The c x r grid after remove_wall on both sides of every wall of E and on
\* the one side named by each flag of D.
Prepared(c, r, E, D) ==
    [i \in 0 .. c * r - 1 |->
       [visited |-> FALSE,
        exist |-> [d \in Dirs |->
           ~ \/ <<i, d>> \in D
             \/ <<i, d>> \in E
             \/ /\ d \in {NORTH, WEST}
                /\ StepX(i % c, d) >= 0
                /\ StepY(i \div c, d) >= 0
                /\ <<StepY(i \div c, d) * c + StepX(i % c, d), opposite(d)>> \in E]]]

\* The caller has removed walls of its choice and is about to call a_star.
InitGrid ==
    /\ \E c \in 1 .. MaxGridCells, r \in 1 .. MaxGridCells :
         /\ c * r <= MaxGridCells
         /\ \E E \in SUBSET Edges(c, r),
               D \in UpTo(Flags(c, r), IF c * r <= MaxDefectCells THEN MaxDefects ELSE 0) :
              Constructed(c, r, Prepared(c, r, E, D))
    /\ pc = "generated"

SpecGrid == InitGrid /\ [][AStar]_vars

-----------------------------------------------------------------------------
\* main() built with other values of WIDTH, HEIGHT and CELL_SIZE, the
\* quotients COLS and ROWS possibly zero.
InitCfg ==
    /\ \E c \in 0 .. MaxCells, r \in 0 .. MaxCells :
         /\ c * r <= MaxCells
         /\ Constructed(c, r, NewMaze(c, r))
    /\ pc = "main"

SpecCfg == InitCfg /\ [][Next]_vars

\* main() with the fairness of a sequential program: it takes its next step.
FairSpec == Spec /\ WF_vars(Next)

\* a_star on a prepared grid, run to completion.
FairSpecGrid == SpecGrid /\ WF_vars(AStar)

-----------------------------------------------------------------------------
\* Vocabulary of the properties

InGrid(x, y) == x >= 0 /\ x < cols /\ y >= 0 /\ y < rows

Cells == DOMAIN maze

XOf(i) == i % cols
YOf(i) == i \div cols

Goal == (rows - 1) * cols + (cols - 1)

\* generate_maze has returned to main().
Generated == pc \notin {"main", "generate", "crashed"}

\* The cells one is_walkable move away from cell i.
Moves(i) ==
    {StepY(YOf(i), d) * cols + StepX(XOf(i), d) : d \in
        {e \in Dirs : /\ is_walkable(XOf(i), YOf(i), e)
                      /\ InGrid(StepX(XOf(i), e), StepY(YOf(i), e))}}

\* Breadth-first search from cell 0: cell -> number of moves, for the cells
\* is_walkable moves reach.
RECURSIVE Bfs(_, _, _)
Bfs(frontier, dist, level) ==
    IF frontier = {} THEN dist
    ELSE LET next == UNION {Moves(i) : i \in frontier} \ DOMAIN dist
         IN  Bfs(next,
                 [i \in DOMAIN dist \cup next |-> IF i \in next THEN level + 1 ELSE dist[i]],
                 level + 1)

Distance == Bfs({0}, [i \in {0} |-> 0], 0)

\* The walls between adjacent cells removed on both sides.
RemovedPairs ==
    {f \in Edges(cols, rows) :
        /\ ~maze[f[1]].exist[f[2]]
        /\ \/ f[2] = EAST /\ ~maze[f[1] + 1].exist[WEST]
           \/ f[2] = SOUTH /\ ~maze[f[1] + cols].exist[NORTH]}

Ends(f) == {f[1], IF f[2] = EAST THEN f[1] + 1 ELSE f[1] + cols}

\* Removing, as long as there is one, the edges that end in a cell of degree
\* one leaves no edge exactly when the edges form no cycle.
RECURSIVE Stripped(_)
Stripped(E) ==
    LET leaf == {f \in E : \E v \in Ends(f) : \A g \in E \ {f} : v \notin Ends(g)}
    IN  IF leaf = {} THEN E ELSE Stripped(E \ leaf)

Acyclic == Stripped(RemovedPairs) = {}

Connected == DOMAIN Distance = Cells

\* Every wall that faces outside the grid exists.
BorderIntact ==
    \A i \in Cells, d \in Dirs :
        ~InGrid(StepX(XOf(i), d), StepY(YOf(i), d)) => maze[i].exist[d]

\* Each wall between two cells is in the same state on its two sides.
WallsSymmetric ==
    \A i \in Cells :
        /\ XOf(i) + 1 < cols => maze[i].exist[EAST] = maze[i + 1].exist[WEST]
        /\ YOf(i) + 1 < rows => maze[i].exist[SOUTH] = maze[i + cols].exist[NORTH]

-----------------------------------------------------------------------------
\* C1: when generate_maze(0,0) has returned on the all-walls grid, exactly
\* COLS*ROWS - 1 walls between adjacent cells are removed and the passage graph
\* is connected and acyclic: a spanning tree of the grid.
C1_Perfect ==
    Generated =>
        /\ Cardinality(RemovedPairs) = cols * rows - 1
        /\ Connected
        /\ Acyclic

C1_Witness == pc = "generated" /\ cols >= 2 /\ rows >= 2 /\ Cardinality(RemovedPairs) >= 3

\* C2: in every state generate_maze reaches, a wall between two cells of the
\* grid is removed on one side if and only if it is removed on the other.
C2_WallSymmetry == WallsSymmetric

C2_Witness == pc = "generate" /\ \E i \in Cells : ~maze[i].exist[SOUTH] /\ XOf(i) > 0

\* C7: generation terminates; generate_maze is never entered twice for a cell
\* nor for an index outside the grid, and when it has returned to main() it has
\* been entered exactly once for every cell and every cell is visited.
C7_VisitsEachOnce ==
    /\ [](~oob /\ \A i \in Cells : entered[i] <= 1)
    /\ [](Generated => \A i \in Cells : entered[i] = 1 /\ maze[i].visited)
    /\ <>Generated

C7_Witness == pc = "generated" /\ cols >= 2 /\ rows >= 2 /\ \A i \in Cells : entered[i] = 1

\* C10: generate_maze removes no wall that faces outside the grid, and in the
\* a_star run on its maze every neighbour that passes is_walkable is a cell of
\* the grid whose index is its own, as is every queued node and every key of
\* came_from; no vector is indexed outside its size.
C10_InBounds ==
    /\ BorderIntact
    /\ ~oob
    /\ \A n \in open_set : InGrid(n.x, n.y)
    /\ \A k \in DOMAIN came_from : k \in Cells
    /\ (pc = "search" /\ dir < 4 /\ is_walkable(current.x, current.y, dir)) =>
          LET nx == StepX(current.x, dir)
              ny == StepY(current.y, dir)
          IN  /\ InGrid(nx, ny)
              /\ index(nx, ny) \in DOMAIN g_cost
              /\ XOf(index(nx, ny)) = nx
              /\ YOf(index(nx, ny)) = ny

C10_Witness ==
    /\ pc = "search" /\ dir < 4 /\ is_walkable(current.x, current.y, dir)
    /\ cols >= 2 /\ rows >= 2
    /\ current.x = cols - 1

-----------------------------------------------------------------------------
\* Vocabulary of the path properties

Returned == pc = "done"

\* Two cells next to each other in the grid, none of them outside it.
Adjacent(a, b) ==
    /\ InGrid(a[1], a[2]) /\ InGrid(b[1], b[2])
    /\ Abs(a[1] - b[1]) + Abs(a[2] - b[2]) = 1

\* The direction of the step from a to the adjacent b.
Towards(a, b) ==
    IF b[1] = a[1] + 1 THEN EAST
    ELSE IF b[1] = a[1] - 1 THEN WEST
    ELSE IF b[2] = a[2] + 1 THEN SOUTH
    ELSE NORTH

\* C3: on a maze made by generate_maze, the path a_star returns has as many
\* steps as the breadth-first distance from (0,0) to (COLS-1, ROWS-1) under
\* is_walkable; on the 1x1 grid that is 0 steps.
C3_Optimal ==
    Returned =>
        /\ Goal \in DOMAIN Distance
        /\ Len(path) - 1 = Distance[Goal]
        /\ (cols = 1 /\ rows = 1) => Len(path) - 1 = 0

C3_Witness == Returned /\ Len(path) - 1 >= 4 /\ Len(path) - 1 > cols - 1 + rows - 1

-----------------------------------------------------------------------------
\* a_star has been called.
Searching == pc \in {"search", "done", "crashed", "hung"}

\* C5: on a grid where is_walkable moves do not lead from (0,0) to
\* (COLS-1, ROWS-1), a_star ends in no error state and returns, with the queue
\* empty, the empty path.
C5_NoPath ==
    (Searching /\ Goal \notin DOMAIN Distance) =>
        /\ pc \notin {"crashed", "hung"}
        /\ Returned => (path = <<>> /\ open_set = {})

\* C6: with COLS <= 0 or ROWS <= 0 the configuration is rejected at entry:
\* generate_maze and a_star do not run and nothing is indexed.
C6_InvalidRejected ==
    (cols <= 0 \/ rows <= 0) =>
        /\ pc = "main"
        /\ ~oob
        /\ stack = <<>>
        /\ open_set = {}

\* C8: on a grid with symmetric walls and an intact border, the node a_star
\* pops and closes carries the g_cost recorded for its cell, and the g_cost
\* recorded for a closed cell is, from then on, the breadth-first distance
\* from (0,0) to it, whichever entry of least f_cost the queue hands out.
C8_ClosedCostFinal ==
    (Searching /\ BorderIntact /\ WallsSymmetric) =>
        /\ LET dist == Distance
           IN  \A i \in DOMAIN visited :
                 visited[i] => (i \in DOMAIN dist /\ g_cost[i] = dist[i])
        /\ current # NoNode =>
              /\ visited[index(current.x, current.y)]
              /\ current.g_cost = g_cost[index(current.x, current.y)]

C8_Witness ==
    /\ BorderIntact /\ WallsSymmetric /\ ~Acyclic
    /\ current # NoNode /\ current.g_cost >= 3
    /\ \E n \in open_set : visited[index(n.x, n.y)]

\* A step that pops an entry whose cell is already closed.
Discard ==
    /\ pc = "search"
    /\ dir = 4
    /\ \E n \in open_set : open_set' = open_set \ {n} /\ visited[index(n.x, n.y)]

\* C9: on a grid with an intact border no cell is closed twice; popping an
\* entry of a closed cell changes neither g_cost, came_from nor the closed set
\* and expands nothing; and a_star returns.
C9_DuplicatesTolerated ==
    /\ [](BorderIntact => \A i \in DOMAIN closes : closes[i] <= 1)
    /\ [][(BorderIntact /\ Discard) =>
            /\ UNCHANGED <<g_cost, came_from, visited, closes, current, path, pc>>
            /\ dir' = 4]_vars
    /\ <>(BorderIntact => Returned)

C9_Witness ==
    /\ BorderIntact
    /\ pc = "search"
    /\ dir = 4
    /\ \E n \in Top(open_set) : visited[index(n.x, n.y)]
=============================================================================
